---- MODULE Spec2Model ----
(***************************************************************************)
(* State-machine model of scanner_motor_control:                           *)
(*   tmcl_interface.py      TMCL frame codec                               *)
(*   motor_controller.py    Motor: one axis on one serial transport        *)
(*   scanner_motor_manager.py  ScannerControl: thread-pool fan-out         *)
(*                                                                         *)
(* Distances are integers in tenths of a millimetre, dist_per_rot in       *)
(* 1e-4 mm, times in seconds.  Every _write_to_serial is two steps         *)
(* (SerialWrite, SerialRead) so that exchanges of different axes           *)
(* interleave.  regs[a][p] is the value the current call (for a group      *)
(* operation: the current group operation) last sent to axis a in a        *)
(* SET_AXIS_PARAMETER frame for register p, NoValue if it sent none.       *)
(***************************************************************************)
EXTENDS Integers, Sequences, FiniteSets, TLC

VARIABLES
    motors,        \* ScannerControl.motors: the axis indexes holding a Motor
    serial,        \* Motor._serial per axis: "none" | "open" | "closed"
    handles,       \* transport handles currently open on the axis's port
    regs,          \* per axis, the registers as SET during the current call
    wstate,        \* per axis call: "idle" | "run" | "done" | "failed" | "dead"
    task,          \* per axis: the Motor method being executed and its arguments
    pc,            \* per axis: index of the current instruction of the method
    phase,         \* per axis: "w" before the write of an exchange, "r" before its read
    err,           \* per axis: exception that ended the call
    steps,         \* move_in_step local: resolved target
    position_old,  \* _check_if_finished_moving local
    since,         \* time.time() - last_move_time at the last poll
    lastFrame,     \* last 9-byte frame the current call wrote on the transport
    inflight,      \* frames written whose reply has not been read
    nwrites,       \* frames written during the current call (saturating)
    prevPoll,      \* new_position as the previous poll of the wait left it
    stalledFor,    \* time for which consecutive polls read the same position (saturating)
    gop,           \* group operation in progress or last finished
    gphase,        \* "idle" | "busy" | "busy2" (configure: second pool) | "seq"
    gresult,       \* "none" | "ok" | "error"
    targets,       \* axes the current pool was given a task for
    gvalue,        \* list returned by check_position_in_mm_allowed
    alive,         \* the host process is running
    lastReply,     \* per axis: the bytes the last self._serial.read(9) returned
    ret,           \* per axis: the value the last _write_to_serial returned
    valid,         \* per axis: the flag the last check_if_microstep_allowed returned
    sent,          \* per axis: the frames other than GET the current call wrote, in order
    codec,         \* a call of TMCL._encode / TMCL.decode_reply on its own
    seen           \* what the caller of a Motor saw of its previous direct call

vars == <<motors, serial, handles, regs, wstate, task, pc, phase, err, steps,
          position_old, since, lastFrame, inflight, nwrites, prevPoll,
          stalledFor, gop, gphase, gresult, targets, gvalue, alive, lastReply, ret,
          valid, sent, codec, seen>>

(***************************************************************************)
(* Bounds of the model                                                     *)
(***************************************************************************)
\* axes of the deployment that are modelled (the lists in __init__ hold 3)
NumAxes == 2
\* transport handles that may be open on one port before connect is no longer called
MaxHandles == 2
\* saturation of the per-call frame counter
MaxCount == 2
\* radix of one frame byte; 256 on the wire, scaled so that an unsigned
\* four-byte value stays inside TLC's 32-bit integers
ByteMod == 128

Axes == 0 .. (NumAxes - 1)

Min(x, y) == IF x < y THEN x ELSE y

Abs(x) == IF x < 0 THEN -x ELSE x

RECURSIVE Pow(_, _)
Pow(b, n) == IF n = 0 THEN 1 ELSE b * Pow(b, n - 1)

RECURSIVE SumSeq(_)
SumSeq(s) == IF s = <<>> THEN 0 ELSE Head(s) + SumSeq(Tail(s))

(***************************************************************************)
(* tmcl_interface.py                                                       *)
(***************************************************************************)
ROTATE_RIGHT == 1
ROTATE_LEFT == 2
STOP_MOTOR_MOVEMENT == 3
MOVE_TO_POSITION == 4
SET_AXIS_PARAMETER == 5
GET_AXIS_PARAMETER == 6
STORE_AXIS_PARAMETER == 7

ABSOLUTE == 0
RELATIVE == 1

ACTUAL_POSITION_MICROSTEPS == 1
ACTUAL_SPEED == 3
MAX_SPEED == 4
MAX_ACCELERATION == 5
TARGET_POSITION_REACHED == 8
MIN_SPEED == 130
MICROSTEP_RESOLUTION == 140
MIXED_DECAY_THRESHOLD == 203
STALL_DETECTION_THRESHOLD == 205

StatusCodes == {100, 101, 1, 2, 3, 4, 5, 6}

\* the signed value range of the four value bytes
WordMod == Pow(ByteMod, 4)

\* int.to_bytes(4, byteorder="little", signed=True)
to_bytes_little(value) ==
    LET u == value % WordMod
    IN  [i \in 1..4 |-> (u \div Pow(ByteMod, i - 1)) % ByteMod]

\* int.to_bytes(4, byteorder="big", signed=True)
to_bytes(value) ==
    LET u == value % WordMod
    IN  [i \in 1..4 |-> (u \div Pow(ByteMod, 4 - i)) % ByteMod]

_encode(cmd, parameter, value) ==
    LET binary_msg == <<1, cmd, parameter, 0>> \o to_bytes(value)
    IN  binary_msg \o <<SumSeq(binary_msg) % ByteMod>>

rotate_right_motor(value) == _encode(ROTATE_RIGHT, 0, value)

rotate_left_motor(value) == _encode(ROTATE_LEFT, 0, value)

stop_motor_movement == _encode(STOP_MOTOR_MOVEMENT, 0, 0)

\* move_to_position putting RELATIVE in the parameter byte whatever it is given
move_to_position_relative(parameter, value) ==
    _encode(MOVE_TO_POSITION, RELATIVE, value)

move_to_position(parameter, value) == _encode(MOVE_TO_POSITION, parameter, value)

set_axis_parameter(parameter, value) == _encode(SET_AXIS_PARAMETER, parameter, value)

get_axis_parameter(parameter) == _encode(GET_AXIS_PARAMETER, parameter, 0)

store_axis_parameter(parameter) == _encode(STORE_AXIS_PARAMETER, parameter, 0)

\* decode_reply taking a reply cut short for a reply with the value 0
decode_padding_short(reply) ==
    IF Len(reply) < 9
    THEN [ok |-> TRUE, value |-> 0]
    ELSE IF reply[3] \in StatusCodes
    THEN [ok |-> TRUE,
          value |-> reply[5] * Pow(ByteMod, 3) + reply[6] * Pow(ByteMod, 2)
                    + reply[7] * ByteMod + reply[8]]
    ELSE [ok |-> FALSE, value |-> 0]

\* decode_reply raising on an error status (1-6) instead of logging a warning
decode_raising_on_error_status(reply) ==
    IF Len(reply) < 9
    THEN [ok |-> FALSE, value |-> 0]
    ELSE IF reply[3] \in {100, 101}
    THEN [ok |-> TRUE,
          value |-> reply[5] * Pow(ByteMod, 3) + reply[6] * Pow(ByteMod, 2)
                    + reply[7] * ByteMod + reply[8]]
    ELSE [ok |-> FALSE, value |-> 0]

\* decode_reply without the StatusCodes(dec_reply[2]) lookup
decode_ignoring_status(reply) ==
    IF Len(reply) < 9
    THEN [ok |-> FALSE, value |-> 0]
    ELSE [ok |-> TRUE,
          value |-> reply[5] * Pow(ByteMod, 3) + reply[6] * Pow(ByteMod, 2)
                    + reply[7] * ByteMod + reply[8]]

\* decode_reply: ok = FALSE stands for the exception (short reply, unknown status)
decode_reply(reply) ==
    IF Len(reply) < 9
    THEN [ok |-> FALSE, value |-> 0]
    ELSE LET int_value == reply[5] * Pow(ByteMod, 3) + reply[6] * Pow(ByteMod, 2)
                          + reply[7] * ByteMod + reply[8]
         IN  IF reply[3] \in StatusCodes
             THEN [ok |-> TRUE, value |-> int_value]
             ELSE [ok |-> FALSE, value |-> 0]

(***************************************************************************)
(* The controller at the other end of the transport                        *)
(***************************************************************************)
\* a reply frame as the firmware builds it: the value is a signed register
HwReply(status, cmd, value) ==
    LET head == <<2, 1, status, cmd>> \o to_bytes(value)
    IN  head \o <<SumSeq(head) % ByteMod>>

\* the command, parameter and signed value a request frame carries
FrameCmd(f) == f[2]

FramePar(f) == f[3]

FrameValue(f) ==
    LET u == f[5] * Pow(ByteMod, 3) + f[6] * Pow(ByteMod, 2) + f[7] * ByteMod + f[8]
    IN  IF u >= WordMod \div 2 THEN u - WordMod ELSE u

\* raw register values the controller may report
HwPositions == {-1, 3202}

\* the values the controller may report in the reply to command cmd on
\* register par
HwValues(cmd, par) ==
    IF cmd # GET_AXIS_PARAMETER THEN {0}
    ELSE IF par = ACTUAL_POSITION_MICROSTEPS THEN HwPositions
    ELSE IF par = TARGET_POSITION_REACHED THEN {0, 1}
    ELSE IF par = ACTUAL_SPEED THEN {0, 900}
    ELSE {0}

\* bytes of a reply that arrive before the read times out
ShortLen == 5

\* a reply whose checksum byte is not the sum of the bytes before it
WrongSum(r) == [r EXCEPT ![9] = (@ + 1) % ByteMod]

\* what Serial.read(9) may return after a frame: a reply with a success or an
\* error status, a reply with a wrong checksum, a reply with an undefined
\* status byte, nothing (timeout), or the first ShortLen bytes of a reply
Replies(cmd, par) ==
    {HwReply(st, cmd, v) : st \in {100, 4}, v \in HwValues(cmd, par)}
        \cup {WrongSum(HwReply(100, cmd, v)) : v \in HwValues(cmd, par)}
        \cup {HwReply(0, cmd, 0), <<>>, SubSeq(HwReply(100, cmd, 0), 1, ShortLen)}

Commands == {ROTATE_RIGHT, ROTATE_LEFT, STOP_MOTOR_MOVEMENT, MOVE_TO_POSITION,
             SET_AXIS_PARAMETER, GET_AXIS_PARAMETER, STORE_AXIS_PARAMETER}

Parameters == {0, ACTUAL_POSITION_MICROSTEPS, ACTUAL_SPEED, MAX_SPEED,
               MAX_ACCELERATION, TARGET_POSITION_REACHED, MIN_SPEED,
               MICROSTEP_RESOLUTION, MIXED_DECAY_THRESHOLD,
               STALL_DETECTION_THRESHOLD}

\* what the read may return, each with the result of TMCL.decode_reply on it
Decoded == [c \in Commands |-> [p \in Parameters |->
               {[bytes |-> r, ok |-> decode_reply(r).ok,
                 value |-> decode_reply(r).value] : r \in Replies(c, p)}]]

\* seconds that may pass between two polls of the wait loop
Elapsed == {6}

(***************************************************************************)
(* motor_controller.py: configuration                                      *)
(***************************************************************************)
DIST_PER_ROTS == <<19983, 19983, 19959>>

MAX_STEPs == <<1303641, 1425174, 1342922>>

STALL_THRESHOLD == 7
DECAY_THRESHOLD == -1
MAX_FREEZE_TIME == 10
SET_MICROSTEP_RESO == 6

dist_per_rot(a) == DIST_PER_ROTS[a + 1]

MAX_STEP(a) == MAX_STEPs[a + 1]

\* int(distance / dist_per_rot * micsteps_per_rot), truncating toward zero
_mm_to_microsteps(a, distance) ==
    LET micsteps_per_rot == 200 * Pow(2, SET_MICROSTEP_RESO)
        k == micsteps_per_rot * 1000
        q == k \div dist_per_rot(a)
        r == k % dist_per_rot(a)
        m == Abs(distance)
        position == m * q + (m * r) \div dist_per_rot(a)
    IN  IF distance < 0 THEN -position ELSE position

\* the bounds check with ">=" for ">" in its first test
check_excluding_max(a, s) == s >= 0 /\ s < MAX_STEP(a)

\* the bounds check without its "steps > self.MAX_STEP" branch
check_without_upper_bound(a, s) == s >= 0

\* check_if_microstep_allowed(steps), the flag of the returned pair
check_if_microstep_allowed(a, s) ==
    IF s > MAX_STEP(a) THEN FALSE
    ELSE IF s < 0 THEN FALSE
    ELSE TRUE

(***************************************************************************)
(* Motor methods as instruction sequences.  "x" is a _write_to_serial      *)
(* whose result is dropped; the other kinds are exchanges or local steps   *)
(* whose result steers the method.                                         *)
(***************************************************************************)
X(frame) == [k |-> "x", f |-> frame, s |-> 0, mode |-> 0]

I(kind) == [k |-> kind, f |-> <<>>, s |-> 0, mode |-> 0]

\* _set_and_store with the STORE written ahead of the SET
_store_and_set(parameter, value) ==
    <<X(store_axis_parameter(parameter)), X(set_axis_parameter(parameter, value))>>

_set_and_store(parameter, value) ==
    <<X(set_axis_parameter(parameter, value)), X(store_axis_parameter(parameter))>>

set_speed_and_acceleration(max_speed, max_acceleration) ==
    _set_and_store(MIN_SPEED, 1)
        \o _set_and_store(MAX_SPEED, max_speed)
        \o _set_and_store(MAX_ACCELERATION, max_acceleration)
        \o _set_and_store(MICROSTEP_RESOLUTION, SET_MICROSTEP_RESO)

activate_stall_guard ==
    _set_and_store(MAX_SPEED, 1000)
        \o _set_and_store(MIXED_DECAY_THRESHOLD, 2048)
        \o _set_and_store(STALL_DETECTION_THRESHOLD, STALL_THRESHOLD)

\* deactivate_stall_guard leaving MAX_SPEED as it is
deactivate_keeping_speed ==
    _set_and_store(MIXED_DECAY_THRESHOLD, DECAY_THRESHOLD)
        \o _set_and_store(STALL_DETECTION_THRESHOLD, 0)

deactivate_stall_guard ==
    _set_and_store(MAX_SPEED, 1000)
        \o _set_and_store(MIXED_DECAY_THRESHOLD, DECAY_THRESHOLD)
        \o _set_and_store(STALL_DETECTION_THRESHOLD, 0)

\* the loop of _check_if_finished_moving: "oldpos" reads position_old,
\* "tpr" is the loop test, "newpos" the loop body
_check_if_finished_moving == <<I("oldpos"), I("tpr"), I("newpos")>>

\* move_in_step without the call of _check_if_finished_moving
move_without_wait(s, mode) ==
    <<[k |-> "resolve", f |-> <<>>, s |-> s, mode |-> mode], I("move")>>

\* move_in_step with the MOVE_TO_POSITION write ahead of the bounds check
move_before_check(s, mode) ==
    <<I("move"), [k |-> "resolve", f |-> <<>>, s |-> s, mode |-> mode]>>
        \o _check_if_finished_moving

\* move_in_step: "resolve" adds the current position in RELATIVE mode and
\* applies the bounds check, "move" writes MOVE_TO_POSITION
move_in_step(s, mode) ==
    <<[k |-> "resolve", f |-> <<>>, s |-> s, mode |-> mode], I("move")>>
        \o _check_if_finished_moving

move_relative_distance_in_mm(a, distance_mm) ==
    move_in_step(_mm_to_microsteps(a, distance_mm), RELATIVE)

move_absolute_position_in_mm(a, position_mm) ==
    move_in_step(_mm_to_microsteps(a, position_mm), ABSOLUTE)

get_current_position == <<X(get_axis_parameter(ACTUAL_POSITION_MICROSTEPS))>>

\* search_reference_position reading ACTUAL_SPEED once instead of in a loop
search_polling_once(a) ==
    activate_stall_guard
        \o <<X(rotate_left_motor(900)), X(get_axis_parameter(ACTUAL_SPEED)),
             X(set_axis_parameter(ACTUAL_POSITION_MICROSTEPS, 0))>>
        \o move_relative_distance_in_mm(a, 5)
        \o deactivate_stall_guard

\* search_reference_position deactivating the stall guard ahead of the nudge
search_deactivating_early(a) ==
    activate_stall_guard
        \o <<X(rotate_left_motor(900)), I("speed"),
             X(set_axis_parameter(ACTUAL_POSITION_MICROSTEPS, 0))>>
        \o deactivate_stall_guard
        \o move_relative_distance_in_mm(a, 5)

\* search_reference_position with ACTUAL_POSITION zeroed before the speed is polled
search_zeroing_early(a) ==
    activate_stall_guard
        \o <<X(rotate_left_motor(900)),
             X(set_axis_parameter(ACTUAL_POSITION_MICROSTEPS, 0)), I("speed")>>
        \o move_relative_distance_in_mm(a, 5)
        \o deactivate_stall_guard

search_reference_position(a) ==
    activate_stall_guard
        \o <<X(rotate_left_motor(900)), I("speed"),
             X(set_axis_parameter(ACTUAL_POSITION_MICROSTEPS, 0))>>
        \o move_relative_distance_in_mm(a, 5)
        \o deactivate_stall_guard

print_maximum_step(a) ==
    activate_stall_guard
        \o <<X(rotate_right_motor(900)), I("speed")>>
        \o move_relative_distance_in_mm(a, -5)
        \o deactivate_stall_guard

\* check_if_microstep_allowed(steps, relative) called on its own
check_call(s, relative) == <<[k |-> "check", f |-> <<>>, s |-> s, mode |-> relative]>>

\* Motor.connect with the probe of test_connection sent a second time
connect_probing_twice ==
    <<I("open"), X(stop_motor_movement), X(stop_motor_movement)>>

connect == <<I("open"), X(stop_motor_movement)>>

disconnect == <<I("close")>>

Program(a, t) ==
    CASE t.op = "connect" -> connect
      [] t.op = "disconnect" -> disconnect
      [] t.op = "set_speed_and_acceleration" -> set_speed_and_acceleration(t.arg, t.arg2)
      [] t.op = "activate_stall_guard" -> activate_stall_guard
      [] t.op = "deactivate_stall_guard" -> deactivate_stall_guard
      [] t.op = "move_absolute_position_in_mm" -> move_absolute_position_in_mm(a, t.arg)
      [] t.op = "move_relative_distance_in_mm" -> move_relative_distance_in_mm(a, t.arg)
      [] t.op = "get_current_position" -> get_current_position
      [] t.op = "search_reference_position" -> search_reference_position(a)
      [] t.op = "print_maximum_step" -> print_maximum_step(a)
      [] t.op = "check_if_microstep_allowed" -> check_call(t.arg, t.arg2)
      [] OTHER -> <<>>

Task(op, x, y) == [op |-> op, arg |-> x, arg2 |-> y]

\* arguments the callers pass
MmInputs == {-5, 5, 2500}

SpeedInputs == {5000}

\* steps arguments around the two ends of the travel of the first axis
StepInputs == {0 - 3202, -1, 0, MAX_STEPs[1] - 3202, MAX_STEPs[1], MAX_STEPs[1] + 1}

AccelerationInputs == {1500}

MotorTasks ==
    {Task(op, 0, 0) : op \in {"connect", "disconnect", "activate_stall_guard",
                              "deactivate_stall_guard", "get_current_position",
                              "search_reference_position", "print_maximum_step"}}
        \cup {Task("set_speed_and_acceleration", ms, acc) :
                ms \in SpeedInputs, acc \in AccelerationInputs}
        \cup {Task(op, d, 0) : op \in {"move_absolute_position_in_mm",
                                      "move_relative_distance_in_mm"},
                               d \in MmInputs}
        \cup {Task("check_if_microstep_allowed", st, relative) :
                st \in StepInputs, relative \in {ABSOLUTE, RELATIVE}}

\* every call any caller of the model makes, with its instruction sequence
AllTasks == MotorTasks

ProgramTable == [a \in Axes |-> [t \in AllTasks |-> Program(a, t)]]

Instr(a) == ProgramTable[a][task[a]][pc[a]]

\* the frame the exchange at the current instruction writes
FrameOf(a) ==
    LET i == Instr(a)
    IN  CASE i.k = "x" -> i.f
          [] i.k = "resolve" -> get_axis_parameter(ACTUAL_POSITION_MICROSTEPS)
          [] i.k = "check" -> get_axis_parameter(ACTUAL_POSITION_MICROSTEPS)
          [] i.k = "move" -> move_to_position(ABSOLUTE, steps[a])
          [] i.k = "oldpos" -> get_axis_parameter(ACTUAL_POSITION_MICROSTEPS)
          [] i.k = "tpr" -> get_axis_parameter(TARGET_POSITION_REACHED)
          [] i.k = "newpos" -> get_axis_parameter(ACTUAL_POSITION_MICROSTEPS)
          [] i.k = "speed" -> get_axis_parameter(ACTUAL_SPEED)
          [] OTHER -> <<>>

NoTask == [op |-> "none", arg |-> 0, arg2 |-> 0]

NoValue == 0 - 9999

RegPars == {ACTUAL_POSITION_MICROSTEPS, MAX_SPEED, MAX_ACCELERATION, MIN_SPEED,
            MICROSTEP_RESOLUTION, MIXED_DECAY_THRESHOLD, STALL_DETECTION_THRESHOLD}


(***************************************************************************)
(* Bookkeeping shared by the steps of a Motor call                         *)
(***************************************************************************)
\* the call of axis a goes on at instruction n with the given locals, or
\* returns normally when n is past the end of the method
Continue(a, n, st, po, si) ==
    LET fin == n > Len(ProgramTable[a][task[a]])
    IN  /\ pc' = [pc EXCEPT ![a] = IF fin THEN 0 ELSE n]
        /\ wstate' = [wstate EXCEPT ![a] = IF fin THEN "done" ELSE "run"]
        /\ phase' = [phase EXCEPT ![a] = "w"]
        /\ steps' = [steps EXCEPT ![a] = IF fin THEN 0 ELSE st]
        /\ position_old' = [position_old EXCEPT ![a] = IF fin THEN 0 ELSE po]
        /\ since' = [since EXCEPT ![a] = IF fin THEN 0 ELSE si]
        /\ UNCHANGED <<err, alive>>

\* the call of axis a ends by an exception e
Raise(a, e) ==
    /\ pc' = [pc EXCEPT ![a] = 0]
    /\ wstate' = [wstate EXCEPT ![a] = "failed"]
    /\ phase' = [phase EXCEPT ![a] = "w"]
    /\ steps' = [steps EXCEPT ![a] = 0]
    /\ position_old' = [position_old EXCEPT ![a] = 0]
    /\ since' = [since EXCEPT ![a] = 0]
    /\ err' = [err EXCEPT ![a] = e]
    /\ UNCHANGED alive

\* a pool worker runs the call (ThreadPool.map / starmap), otherwise the
\* thread of the caller does
RunsInPool == gphase \in {"busy", "busy2"}

\* exit() in _check_if_finished_moving: SystemExit ends the thread that runs
\* the call; in the caller's thread that ends the process
Exit(a) ==
    /\ pc' = [pc EXCEPT ![a] = 0]
    /\ wstate' = [wstate EXCEPT ![a] = "dead"]
    /\ phase' = [phase EXCEPT ![a] = "w"]
    /\ steps' = [steps EXCEPT ![a] = 0]
    /\ position_old' = [position_old EXCEPT ![a] = 0]
    /\ since' = [since EXCEPT ![a] = 0]
    /\ err' = [err EXCEPT ![a] = "SystemExit"]
    /\ alive' = IF RunsInPool THEN alive ELSE FALSE

\* outcome of the freeze test of _check_if_finished_moving (lines 108-114)
\* for a poll that read new_position, dt seconds after the previous one:
\* "moved", "frozen" (exit) or "wait"
FreezeTest(a, new_position, dt) ==
    IF new_position # position_old[a] THEN "moved"
    ELSE IF since[a] + dt > MAX_FREEZE_TIME THEN "frozen"
    ELSE "wait"

Running(a) == alive /\ wstate[a] = "run"

ExchangeKinds == {"x", "resolve", "check", "move", "oldpos", "tpr", "newpos",
                  "speed"}

IsExchange(i) ==
    /\ i.k \in ExchangeKinds
    /\ ~(i.k \in {"resolve", "check"} /\ i.mode = ABSOLUTE)

Bump(n) == Min(n + 1, MaxCount)

(***************************************************************************)
(* Steps of a Motor call                                                   *)
(***************************************************************************)
\* Motor.connect without the test of lines 26-30: a handle is opened whether
\* or not one is open already
MotorOpenAlways(a) ==
    /\ Running(a) /\ phase[a] = "w" /\ Instr(a).k = "open"
    /\ UNCHANGED <<lastReply, ret, valid, sent>>
    /\ UNCHANGED <<motors, regs, task, lastFrame, inflight, nwrites, prevPoll,
                   stalledFor, gop, gphase, gresult, targets, gvalue, codec, seen>>
    /\ \E opened \in BOOLEAN :
         IF opened
         THEN /\ serial' = [serial EXCEPT ![a] = "open"]
              /\ handles' = [handles EXCEPT ![a] = @ + 1]
              /\ Continue(a, pc[a] + 1, 0, 0, 0)
         ELSE /\ Raise(a, "SerialException")
              /\ UNCHANGED <<serial, handles>>

\* Motor.connect, lines 26-32: nothing to do on an open transport, else
\* serial.Serial(...) opens a handle or raises
MotorOpen(a) ==
    /\ Running(a) /\ phase[a] = "w" /\ Instr(a).k = "open"
    /\ UNCHANGED <<lastReply, ret, valid, sent>>
    /\ UNCHANGED <<motors, regs, task, lastFrame, inflight, nwrites, prevPoll,
                   stalledFor, gop, gphase, gresult, targets, gvalue, codec, seen>>
    /\ IF serial[a] = "open"
       THEN /\ Continue(a, Len(ProgramTable[a][task[a]]) + 1, 0, 0, 0)
            /\ UNCHANGED <<serial, handles>>
       ELSE \E opened \in BOOLEAN :
              IF opened
              THEN /\ serial' = [serial EXCEPT ![a] = "open"]
                   /\ handles' = [handles EXCEPT ![a] = @ + 1]
                   /\ Continue(a, pc[a] + 1, 0, 0, 0)
              ELSE /\ Raise(a, "SerialException")
                   /\ UNCHANGED <<serial, handles>>

\* Motor.disconnect, lines 36-40
MotorClose(a) ==
    /\ Running(a) /\ phase[a] = "w" /\ Instr(a).k = "close"
    /\ UNCHANGED <<lastReply, ret, valid, sent>>
    /\ UNCHANGED <<motors, regs, task, lastFrame, inflight, nwrites, prevPoll,
                   stalledFor, gop, gphase, gresult, targets, gvalue, codec, seen>>
    /\ Continue(a, pc[a] + 1, 0, 0, 0)
    /\ IF serial[a] = "open"
       THEN /\ serial' = [serial EXCEPT ![a] = "closed"]
            /\ handles' = [handles EXCEPT ![a] = @ - 1]
       ELSE UNCHANGED <<serial, handles>>

\* the bounds check on steps that need no read of the position: move_in_step
\* in ABSOLUTE mode, lines 144-147, which raises on a failure, and
\* check_if_microstep_allowed(steps, relative=False), lines 120-127, which
\* returns the flag
ResolveAbsolute(a) ==
    /\ Running(a) /\ phase[a] = "w"
    /\ Instr(a).k \in {"resolve", "check"} /\ Instr(a).mode = ABSOLUTE
    /\ valid' = [valid EXCEPT ![a] = check_if_microstep_allowed(a, Instr(a).s)]
    /\ UNCHANGED <<lastReply, ret, sent>>
    /\ UNCHANGED <<motors, serial, handles, regs, task, lastFrame, inflight,
                   nwrites, prevPoll, stalledFor, gop, gphase, gresult, targets, gvalue, codec, seen>>
    /\ IF Instr(a).k = "check"
       THEN Continue(a, pc[a] + 1, 0, 0, 0)
       ELSE IF check_if_microstep_allowed(a, Instr(a).s)
       THEN Continue(a, pc[a] + 1, Instr(a).s, 0, 0)
       ELSE Raise(a, "ValueError")

\* _write_to_serial, line 69: self._serial.write(byte_cmd)
SerialWrite(a) ==
    /\ Running(a) /\ phase[a] = "w" /\ IsExchange(Instr(a))
    /\ UNCHANGED <<motors, serial, handles, task, prevPoll, stalledFor, gop,
                   gphase, gresult, targets, gvalue, codec, seen>>
    /\ UNCHANGED valid
    /\ IF serial[a] # "open"
       THEN /\ Raise(a, "NotOpen")
            /\ UNCHANGED <<regs, lastFrame, inflight, nwrites, lastReply, ret, sent>>
       ELSE LET f == FrameOf(a)
            IN  /\ lastFrame' = [lastFrame EXCEPT ![a] = f]
                /\ lastReply' = [lastReply EXCEPT ![a] = <<>>]
                /\ ret' = [ret EXCEPT ![a] = NoValue]
                /\ sent' = [sent EXCEPT ![a] =
                               IF FrameCmd(f) = GET_AXIS_PARAMETER
                               THEN @ ELSE Append(@, f)]
                /\ inflight' = [inflight EXCEPT ![a] = @ + 1]
                /\ nwrites' = [nwrites EXCEPT ![a] = Bump(@)]
                /\ regs' = IF FrameCmd(f) = SET_AXIS_PARAMETER
                           THEN [regs EXCEPT ![a][FramePar(f)] = FrameValue(f)]
                           ELSE regs
                /\ phase' = [phase EXCEPT ![a] = "r"]
                /\ UNCHANGED <<pc, wstate, err, steps, position_old, since, alive>>

\* what the method does with the value v of the reply, dt seconds after the
\* previous poll
AfterReply(a, v, dt) ==
    LET i == Instr(a)
    IN  CASE i.k = "resolve" ->
               /\ IF check_if_microstep_allowed(a, i.s + v)
                  THEN Continue(a, pc[a] + 1, i.s + v, 0, 0)
                  ELSE Raise(a, "ValueError")
               /\ UNCHANGED <<prevPoll, stalledFor>>
          [] i.k = "oldpos" ->
               /\ Continue(a, pc[a] + 1, steps[a], v, 0)
               /\ prevPoll' = [prevPoll EXCEPT ![a] = v]
               /\ stalledFor' = [stalledFor EXCEPT ![a] = 0]
          [] i.k = "tpr" ->
               IF v = 0
               THEN /\ Continue(a, pc[a] + 1, steps[a], position_old[a], since[a])
                    /\ UNCHANGED <<prevPoll, stalledFor>>
               ELSE /\ Continue(a, pc[a] + 2, 0, 0, 0)
                    /\ prevPoll' = [prevPoll EXCEPT ![a] = 0]
                    /\ stalledFor' = [stalledFor EXCEPT ![a] = 0]
          [] i.k = "newpos" ->
               LET t == FreezeTest(a, v, dt)
               IN  /\ IF t = "frozen"
                      THEN Exit(a)
                      ELSE Continue(a, pc[a] - 1, steps[a], position_old[a],
                                    IF t = "moved" THEN 0 ELSE since[a] + dt)
                   /\ prevPoll' = [prevPoll EXCEPT ![a] = IF t = "frozen" THEN 0 ELSE v]
                   /\ stalledFor' = [stalledFor EXCEPT ![a] =
                          IF t = "frozen" \/ v # prevPoll[a] THEN 0
                          ELSE Min(@ + dt, MAX_FREEZE_TIME + 1)]
          [] i.k = "check" ->
               /\ Continue(a, pc[a] + 1, 0, 0, 0)
               /\ UNCHANGED <<prevPoll, stalledFor>>
          [] i.k = "speed" ->
               /\ Continue(a, IF v # 0 THEN pc[a] ELSE pc[a] + 1, 0, 0, 0)
               /\ UNCHANGED <<prevPoll, stalledFor>>
          [] OTHER ->
               /\ Continue(a, pc[a] + 1, 0, 0, 0)
               /\ UNCHANGED <<prevPoll, stalledFor>>

\* _write_to_serial, lines 70-71: TMCL.decode_reply(self._serial.read(9))
SerialRead(a) ==
    /\ Running(a) /\ phase[a] = "r"
    /\ UNCHANGED <<motors, serial, handles, regs, task, lastFrame, nwrites,
                   gop, gphase, gresult, targets, gvalue, codec, seen>>
    /\ inflight' = [inflight EXCEPT ![a] = 0]
    /\ UNCHANGED sent
    /\ \E r \in Decoded[FrameCmd(lastFrame[a])][FramePar(lastFrame[a])],
          dt \in Elapsed :
          /\ lastReply' = [lastReply EXCEPT ![a] = r.bytes]
          /\ ret' = [ret EXCEPT ![a] = IF r.ok THEN r.value ELSE NoValue]
          /\ valid' = IF r.ok /\ Instr(a).k \in {"resolve", "check"}
                       THEN [valid EXCEPT ![a] =
                               check_if_microstep_allowed(a, Instr(a).s + r.value)]
                       ELSE valid
          /\ IF r.ok
             THEN AfterReply(a, r.value, dt)
             ELSE /\ Raise(a, "ReplyError")
                  /\ prevPoll' = [prevPoll EXCEPT ![a] = 0]
                  /\ stalledFor' = [stalledFor EXCEPT ![a] = 0]

MotorStep(a) ==
    \/ MotorOpen(a)
    \/ MotorClose(a)
    \/ ResolveAbsolute(a)
    \/ SerialWrite(a)
    \/ SerialRead(a)

\* the calls of the axes in S start, each with its task; the other axes hold
\* no call
Start(S, t) ==
    /\ wstate' = [a \in Axes |-> IF a \in S THEN "run" ELSE "idle"]
    /\ task' = [a \in Axes |-> IF a \in S THEN t[a] ELSE NoTask]
    /\ pc' = [a \in Axes |-> IF a \in S THEN 1 ELSE 0]
    /\ phase' = [a \in Axes |-> "w"]
    /\ err' = [a \in Axes |-> "none"]
    /\ steps' = [a \in Axes |-> 0]
    /\ position_old' = [a \in Axes |-> 0]
    /\ since' = [a \in Axes |-> 0]
    /\ nwrites' = [a \in Axes |-> 0]
    /\ prevPoll' = [a \in Axes |-> 0]
    /\ stalledFor' = [a \in Axes |-> 0]
    /\ lastFrame' = [a \in Axes |-> <<>>]
    /\ lastReply' = [a \in Axes |-> <<>>]
    /\ ret' = [a \in Axes |-> NoValue]
    /\ valid' = [a \in Axes |-> TRUE]
    /\ sent' = [a \in Axes |-> <<>>]

\* no call of the codec on its own
NoCodec == [stage |-> "none", cmd |-> 0, parameter |-> 0, value |-> 0,
            frame |-> <<>>, reply |-> <<>>, ok |-> TRUE, out |-> NoValue]

\* no direct call has been made before
NoSeen == [op |-> "none", wstate |-> "idle", err |-> "none"]

\* the registers no call has written yet
NoRegs == [a \in Axes |-> [p \in RegPars |-> NoValue]]

(***************************************************************************)
(* A single Motor driven by its caller                                     *)
(***************************************************************************)
\* the caller invokes one method of the Motor and waits for it
MotorCall(a) ==
    /\ alive /\ gphase = "idle" /\ a \in motors
    /\ \A b \in Axes : wstate[b] # "run"
    /\ \E t \in MotorTasks : Start({a}, [b \in Axes |-> t])
    /\ regs' = NoRegs
    /\ seen' = [op |-> task[a].op, wstate |-> wstate[a], err |-> err[a]]
    /\ UNCHANGED <<motors, serial, handles, inflight, gop, gphase, gresult,
                   targets, gvalue, codec, alive>>

InitCommon ==
    /\ serial = [a \in Axes |-> "none"]
    /\ handles = [a \in Axes |-> 0]
    /\ regs = NoRegs
    /\ wstate = [a \in Axes |-> "idle"]
    /\ task = [a \in Axes |-> NoTask]
    /\ pc = [a \in Axes |-> 0]
    /\ phase = [a \in Axes |-> "w"]
    /\ err = [a \in Axes |-> "none"]
    /\ steps = [a \in Axes |-> 0]
    /\ position_old = [a \in Axes |-> 0]
    /\ since = [a \in Axes |-> 0]
    /\ lastFrame = [a \in Axes |-> <<>>]
    /\ inflight = [a \in Axes |-> 0]
    /\ nwrites = [a \in Axes |-> 0]
    /\ prevPoll = [a \in Axes |-> 0]
    /\ stalledFor = [a \in Axes |-> 0]
    /\ gop = [op |-> "none", len |-> 0, args |-> <<>>, relative |-> FALSE]
    /\ seen = NoSeen
    /\ gphase = "idle"
    /\ gresult = "none"
    /\ targets = {}
    /\ gvalue = <<>>
    /\ alive = TRUE
    /\ lastReply = [a \in Axes |-> <<>>]
    /\ ret = [a \in Axes |-> NoValue]
    /\ valid = [a \in Axes |-> TRUE]
    /\ sent = [a \in Axes |-> <<>>]

\* Motor(port, 0, baudrate, dist_per_rot, max_step) has been constructed
InitMotor ==
    /\ InitCommon
    /\ motors = {0}
    /\ codec = NoCodec

NextMotor ==
    \/ MotorCall(0)
    \/ MotorStep(0)

SpecMotor == InitMotor /\ [][NextMotor]_vars


(***************************************************************************)
(* scanner_motor_manager.py: ScannerControl                                *)
(***************************************************************************)
\* lengths of the ports list a caller may pass to connect
PortCounts == 0 .. (NumAxes + 1)

\* positions / distances lists a caller may pass to a group move
GroupMmInputs == {5, 2500}

\* lists of up to one element per axis, and lists with one element too many
MoveLists ==
    LET fitting == UNION {[1..n -> GroupMmInputs] : n \in 0 .. NumAxes}
    IN  fitting \cup {l \o <<5>> : l \in [1..NumAxes -> GroupMmInputs]}

\* a caller that does not wait for the previous group operation
GroupNeverBlocks == alive

\* the caller makes its next call once the previous group operation has
\* returned or raised
GroupIdle == alive /\ gphase = "idle"

\* a pool that lets the caller go on as soon as one task has returned or raised
PoolJoinedAny == \E a \in targets : wstate[a] \in {"done", "failed"}

\* a pool that lets the caller go on at the first exception
PoolJoinedOnFailure ==
    \/ \E a \in targets : wstate[a] = "failed"
    \/ \A a \in targets : wstate[a] = "done"

\* pool.map / pool.starmap inside "with ThreadPool(...)": the caller goes on
\* once every task given to the pool has returned or raised
PoolJoined == \A a \in targets : wstate[a] \in {"done", "failed"}

\* a group operation hands one task to each axis of S and blocks; with no
\* Motor at all (M, the axes holding one, is empty) ThreadPool(processes=0)
\* raises before anything is handed out
FanOut(name, len, args, M, S, t) ==
    /\ gop' = [op |-> name, len |-> len, args |-> args, relative |-> FALSE]
    /\ regs' = NoRegs
    /\ gvalue' = <<>>
    /\ UNCHANGED <<codec, seen>>
    /\ inflight' = inflight
    /\ IF M = {}
       THEN /\ Start({}, t)
            /\ gphase' = "idle"
            /\ gresult' = "error"
            /\ targets' = {}
       ELSE /\ Start(S, t)
            /\ gphase' = "busy"
            /\ gresult' = "none"
            /\ targets' = S
    /\ UNCHANGED alive

\* connect keeping the Motor an index already holds instead of building a new
\* one
GroupConnectReusing(n) ==
    LET created == {i \in Axes : i < n}
    IN  /\ GroupIdle
        /\ \A i \in created : handles[i] < MaxHandles
        /\ motors' = motors \cup created
        /\ serial' = [a \in Axes |-> IF a \in created \ motors THEN "none"
                                     ELSE serial[a]]
        /\ FanOut("connect", n, <<>>, motors \cup created, motors \cup created,
                  [a \in Axes |-> Task("connect", 0, 0)])
        /\ UNCHANGED handles

\* ScannerControl.connect, lines 22-26: zip() stops at the shortest of ports,
\* DIST_PER_ROTS and MAX_STEPs; every index it yields gets a new Motor.  The
\* Motor the index held before is dropped without disconnect(): the handle it
\* has open is closed when the interpreter finalizes the dropped object
\* (finalized holds the axes where it does so at once) and stays open otherwise
GroupConnect(n) ==
    LET created == {i \in Axes : i < n}
        dropped == {i \in created : serial[i] = "open"}
    IN  /\ GroupIdle
        /\ \A i \in created : handles[i] < MaxHandles
        /\ motors' = motors \cup created
        /\ serial' = [a \in Axes |-> IF a \in created THEN "none" ELSE serial[a]]
        /\ FanOut("connect", n, <<>>, motors \cup created, motors \cup created,
                  [a \in Axes |-> Task("connect", 0, 0)])
        /\ \E finalized \in SUBSET dropped :
             handles' = [a \in Axes |-> IF a \in finalized THEN handles[a] - 1
                                        ELSE handles[a]]

\* the Motor method each group operation without arguments maps over the axes
GroupMethod(name) ==
    CASE name = "disconnect" -> "disconnect"
      [] name = "find_reference_position" -> "search_reference_position"
      [] name = "activate_stall_guard" -> "activate_stall_guard"
      [] name = "deactivate_stall_guard" -> "deactivate_stall_guard"

\* disconnect, find_reference_position, activate_stall_guard,
\* deactivate_stall_guard: lines 28-30 and 50-62
GroupMap(name) ==
    /\ GroupIdle
    /\ FanOut(name, 0, <<>>, motors, motors, [a \in Axes |-> Task(GroupMethod(name), 0, 0)])
    /\ UNCHANGED <<motors, serial, handles>>

\* configure_motors, lines 42-48: the pool of set_speed_and_acceleration
GroupConfigure(max_speed, max_acceleration) ==
    /\ GroupIdle
    /\ FanOut("configure_motors", 0, <<max_speed, max_acceleration>>, motors, motors,
              [a \in Axes |-> Task("set_speed_and_acceleration", max_speed,
                                   max_acceleration)])
    /\ UNCHANGED <<motors, serial, handles>>

\* configure_motors going on to self.deactivate_stall_guard() without waiting
\* for the tasks of the first pool
GroupConfigureUnjoined ==
    /\ alive /\ gphase = "busy" /\ gop.op = "configure_motors"
    /\ Start(motors, [a \in Axes |-> Task("deactivate_stall_guard", 0, 0)])
    /\ gphase' = "busy2"
    /\ targets' = motors
    /\ UNCHANGED <<motors, serial, handles, regs, inflight, gop, gresult,
                   gvalue, codec, seen, alive>>

\* configure_motors, line 49: after the first pool has joined without an
\* exception, self.deactivate_stall_guard() maps over the axes in a new pool
GroupConfigureSecond ==
    /\ alive /\ gphase = "busy" /\ gop.op = "configure_motors"
    /\ PoolJoined
    /\ \A a \in targets : wstate[a] = "done"
    /\ Start(motors, [a \in Axes |-> Task("deactivate_stall_guard", 0, 0)])
    /\ gphase' = "busy2"
    /\ targets' = motors
    /\ UNCHANGED <<motors, serial, handles, regs, inflight, gop, gresult,
                   gvalue, codec, seen, alive>>

\* a group move handing the first element of the list to every axis
GroupMoveFirstToAll(name, positions) ==
    /\ GroupIdle
    /\ FanOut(name, Len(positions), positions, motors,
              {a \in motors : a < Len(positions)},
              [a \in Axes |-> IF a < Len(positions)
                              THEN Task(IF name = "move_to_absolute_position_in_mm"
                                        THEN "move_absolute_position_in_mm"
                                        ELSE "move_relative_distance_in_mm",
                                        positions[1], 0)
                              ELSE NoTask])
    /\ UNCHANGED <<motors, serial, handles>>

\* move_to_absolute_position_in_mm / move_relative_distance_in_mm, lines 80-84
\* and 93-97: zip(self.motors.values(), positions) pairs axis i with element i
\* and stops at the shorter of the two
GroupMove(name, positions) ==
    /\ GroupIdle
    /\ FanOut(name, Len(positions), positions, motors,
              {a \in motors : a < Len(positions)},
              [a \in Axes |-> IF a < Len(positions)
                              THEN Task(IF name = "move_to_absolute_position_in_mm"
                                        THEN "move_absolute_position_in_mm"
                                        ELSE "move_relative_distance_in_mm",
                                        positions[a + 1], 0)
                              ELSE NoTask])
    /\ UNCHANGED <<motors, serial, handles>>

\* the with-block of a group operation ends: the operation returns, or raises
\* the exception of a task
GroupReturn ==
    /\ alive /\ gphase \in {"busy", "busy2"}
    /\ PoolJoined
    /\ gphase = "busy" /\ gop.op = "configure_motors"
         => \E a \in targets : wstate[a] = "failed"
    /\ gphase' = "idle"
    /\ gresult' = IF \E a \in targets : wstate[a] = "failed" THEN "error" ELSE "ok"
    /\ UNCHANGED <<lastReply, ret, valid, sent>>
    /\ UNCHANGED <<motors, serial, handles, regs, wstate, task, pc, phase, err,
                   steps, position_old, since, lastFrame, inflight, nwrites,
                   prevPoll, stalledFor, gop, targets, gvalue, codec, seen, alive>>

\* get_current_position mapped over the axes in a pool like the other group
\* operations
GroupGetPositionPooled ==
    /\ GroupIdle
    /\ FanOut("get_current_position", 0, <<>>, motors, motors,
              [a \in Axes |-> Task("get_current_position", 0, 0)])
    /\ UNCHANGED <<motors, serial, handles>>

\* get_current_position, lines 64-71: the caller's own thread asks one Motor
\* after the other
GroupGetPosition ==
    /\ GroupIdle
    /\ gop' = [op |-> "get_current_position", len |-> 0, args |-> <<>>,
               relative |-> FALSE]
    /\ regs' = NoRegs
    /\ gvalue' = <<>>
    /\ UNCHANGED <<codec, seen>>
    /\ IF motors = {}
       THEN /\ Start({}, [a \in Axes |-> NoTask])
            /\ gphase' = "idle"
            /\ gresult' = "ok"
            /\ targets' = {}
       ELSE /\ Start({0}, [a \in Axes |-> Task("get_current_position", 0, 0)])
            /\ gphase' = "seq"
            /\ gresult' = "none"
            /\ targets' = {0}
    /\ UNCHANGED <<motors, serial, handles, inflight, alive>>

\* the loop of get_current_position goes on with the next Motor, returns
\* after the last one, or is left by the exception of a Motor
GroupGetPositionNext ==
    /\ alive /\ gphase = "seq"
    /\ UNCHANGED <<lastReply, ret, valid, sent>>
    /\ \E a \in targets :
         /\ \A b \in targets : b <= a
         /\ wstate[a] \in {"done", "failed"}
         /\ IF wstate[a] = "failed"
            THEN /\ gphase' = "idle"
                 /\ gresult' = "error"
                 /\ UNCHANGED <<wstate, task, pc, phase, nwrites, targets>>
            ELSE IF a + 1 \in motors
            THEN /\ wstate' = [wstate EXCEPT ![a + 1] = "run"]
                 /\ task' = [task EXCEPT ![a + 1] = Task("get_current_position", 0, 0)]
                 /\ pc' = [pc EXCEPT ![a + 1] = 1]
                 /\ phase' = [phase EXCEPT ![a + 1] = "w"]
                 /\ nwrites' = [nwrites EXCEPT ![a + 1] = 0]
                 /\ targets' = targets \cup {a + 1}
                 /\ UNCHANGED <<gphase, gresult>>
            ELSE /\ gphase' = "idle"
                 /\ gresult' = "ok"
                 /\ UNCHANGED <<wstate, task, pc, phase, nwrites, targets>>
    /\ UNCHANGED <<motors, serial, handles, regs, err, steps, position_old,
                   since, lastFrame, inflight, prevPoll, stalledFor, gop,
                   gvalue, codec, seen, alive>>

\* check_position_in_mm_allowed handing its relative argument on to the
\* Motors, each of which then adds the position its axis reports
GroupCheckPassingRelative(positions, relative) ==
    LET n == Min(Len(positions), Cardinality(motors))
    IN  /\ GroupIdle
        /\ gop' = [op |-> "check_position_in_mm_allowed", len |-> Len(positions),
                   args |-> positions, relative |-> relative]
        /\ \E current \in [1..n -> {decode_reply(HwReply(100, GET_AXIS_PARAMETER, v)).value :
                                      v \in HwPositions}] :
             gvalue' = [i \in 1..n |->
                          check_if_microstep_allowed(i - 1,
                              _mm_to_microsteps(i - 1, positions[i])
                                  + (IF relative THEN current[i] ELSE 0))]
        /\ Start({}, [a \in Axes |-> NoTask])
        /\ regs' = NoRegs
        /\ gphase' = "idle"
        /\ gresult' = "ok"
        /\ targets' = {}
        /\ UNCHANGED <<motors, serial, handles, inflight, codec, seen, alive>>

\* check_position_in_mm_allowed, lines 99-104: the caller's own thread asks
\* one Motor after the other for its verdict on the element zip() pairs it
\* with; no frame is written and the relative argument is not passed on
GroupCheck(positions, relative) ==
    LET n == Min(Len(positions), Cardinality(motors))
    IN  /\ GroupIdle
        /\ gop' = [op |-> "check_position_in_mm_allowed", len |-> Len(positions),
                   args |-> positions, relative |-> relative]
        /\ gvalue' = [i \in 1..n |->
                        check_if_microstep_allowed(i - 1,
                            _mm_to_microsteps(i - 1, positions[i]))]
        /\ Start({}, [a \in Axes |-> NoTask])
        /\ regs' = NoRegs
        /\ gphase' = "idle"
        /\ gresult' = "ok"
        /\ targets' = {}
        /\ UNCHANGED <<motors, serial, handles, inflight, codec, seen, alive>>

Init ==
    /\ InitCommon
    /\ motors = {}
    /\ codec = NoCodec

GroupCall ==
    \/ \E n \in PortCounts : GroupConnect(n)
    \/ \E name \in {"disconnect", "find_reference_position",
                    "activate_stall_guard", "deactivate_stall_guard"} :
         GroupMap(name)
    \/ \E ms \in SpeedInputs, acc \in AccelerationInputs : GroupConfigure(ms, acc)
    \/ \E name \in {"move_to_absolute_position_in_mm",
                    "move_relative_distance_in_mm"}, l \in MoveLists :
         GroupMove(name, l)
    \/ GroupGetPosition
    \/ \E l \in MoveLists, relative \in BOOLEAN : GroupCheck(l, relative)

Next ==
    \/ GroupCall
    \/ GroupConfigureSecond
    \/ GroupGetPositionNext
    \/ GroupReturn
    \/ \E a \in Axes : MotorStep(a)

Spec == Init /\ [][Next]_vars


(***************************************************************************)
(* tmcl_interface.py: TMCL._encode and TMCL.decode_reply on their own      *)
(***************************************************************************)
\* value arguments over the signed range of the four value bytes
CodecValues == {0 - (WordMod \div 2), 0 - 3202, -1, 0, 1, 3202, (WordMod \div 2) - 1}

CodecParameters == {0, ACTUAL_POSITION_MICROSTEPS, STALL_DETECTION_THRESHOLD}

\* status bytes a reply may carry, defined ones and others
StatusInputs == {0, 1, 2, 3, 4, 5, 6, 7, 99, 100, 101, 102, ByteMod - 1}

\* the state of the Motors and of ScannerControl, which the codec leaves alone
driver == <<motors, serial, handles, regs, wstate, task, pc, phase, err, steps,
            position_old, since, lastFrame, inflight, nwrites, prevPoll,
            stalledFor, gop, gphase, gresult, targets, gvalue, alive, lastReply,
            ret, valid, sent, seen>>

\* TMCL._encode(cmd, parameter, value)
Encode ==
    /\ codec.stage = "in"
    /\ UNCHANGED driver
    /\ codec' = [codec EXCEPT !.stage = "encoded",
                              !.frame = _encode(codec.cmd, codec.parameter,
                                                codec.value)]

\* a 9-byte reply that carries the value bytes of the encoded frame, under
\* some status byte and with a right or a wrong checksum
Answer ==
    /\ codec.stage = "encoded"
    /\ UNCHANGED driver
    /\ \E status \in StatusInputs, wrong \in BOOLEAN :
         LET head == <<2, 1, status, codec.cmd>> \o SubSeq(codec.frame, 5, 8)
             r == head \o <<SumSeq(head) % ByteMod>>
         IN  codec' = [codec EXCEPT !.stage = "replied",
                                    !.reply = IF wrong THEN WrongSum(r) ELSE r]

\* TMCL.decode_reply(reply)
Decode ==
    /\ codec.stage = "replied"
    /\ UNCHANGED driver
    /\ LET d == decode_reply(codec.reply)
       IN  codec' = [codec EXCEPT !.stage = "decoded",
                                  !.ok = d.ok,
                                  !.out = IF d.ok THEN d.value ELSE NoValue]

InitCodec ==
    /\ InitCommon
    /\ motors = {}
    /\ \E cmd \in Commands, parameter \in CodecParameters, value \in CodecValues :
         codec = [NoCodec EXCEPT !.stage = "in", !.cmd = cmd,
                                 !.parameter = parameter, !.value = value]

NextCodec ==
    \/ Encode
    \/ Answer
    \/ Decode

SpecCodec == InitCodec /\ [][NextCodec]_vars


(***************************************************************************)
(* Properties                                                              *)
(***************************************************************************)
MoveMethods == {"move_absolute_position_in_mm", "move_relative_distance_in_mm"}

GroupMoves == {"move_to_absolute_position_in_mm", "move_relative_distance_in_mm"}

\* the call of axis a was a move that the bounds check rejected
RangeRejected(a) ==
    /\ task[a].op \in MoveMethods
    /\ wstate[a] = "failed"
    /\ err[a] = "ValueError"

\* C1 as stated: a move whose resolved target is outside [0, MAX_STEP] fails
\* with no frame at all written on the transport during the call, in
\* ABSOLUTE and in RELATIVE mode.
C1_NoFrameOnRangeFailure ==
    \A a \in Axes : RangeRejected(a) => nwrites[a] = 0

\* C1 amended: a move rejected by the bounds check has written no
\* MOVE_TO_POSITION frame; in ABSOLUTE mode it has written no frame at all, in
\* RELATIVE mode exactly one, the GET of ACTUAL_POSITION that resolves the
\* target.
C1_NoMoveOnRangeFailure ==
    \A a \in Axes :
        RangeRejected(a) =>
            IF task[a].op = "move_absolute_position_in_mm"
            THEN nwrites[a] = 0 /\ lastFrame[a] = <<>>
            ELSE /\ nwrites[a] = 1
                 /\ lastFrame[a] = get_axis_parameter(ACTUAL_POSITION_MICROSTEPS)

C1_Witness ==
    \E a \in Axes :
        /\ RangeRejected(a)
        /\ task[a].op = "move_relative_distance_in_mm"
        /\ nwrites[a] = 1

\* C2: every MOVE_TO_POSITION frame an axis has written carries a value v
\* with 0 <= v <= MAX_STEP of that axis, whatever moves, homing and
\* calibration calls came before.
C2_MoveValueInRange ==
    \A a \in Axes :
        (lastFrame[a] # <<>> /\ FrameCmd(lastFrame[a]) = MOVE_TO_POSITION) =>
            /\ 0 <= FrameValue(lastFrame[a])
            /\ FrameValue(lastFrame[a]) <= MAX_STEP(a)

C2_Witness ==
    \E a \in Axes :
        /\ task[a].op = "search_reference_position"
        /\ lastFrame[a] # <<>>
        /\ FrameCmd(lastFrame[a]) = MOVE_TO_POSITION
        /\ FrameValue(lastFrame[a]) > 0

\* the wait of axis a is polling
Waiting(a) == wstate[a] = "run" /\ Instr(a).k \in {"tpr", "newpos"}

\* C3: the wait does not go on polling once ACTUAL_POSITION has read the same
\* from poll to poll for longer than MAX_FREEZE_TIME with the target not
\* reached: by then it has ended with the stall failure, wherever the axis
\* stopped.
C3_StallEndsWait ==
    \A a \in Axes : Waiting(a) => stalledFor[a] <= MAX_FREEZE_TIME

\* C4: a freeze-timeout fault ends the move as a failure handed to the
\* caller; it ends neither the worker that runs the axis nor the process.
C4_StallIsAFailure ==
    /\ alive
    /\ \A a \in Axes : wstate[a] # "dead"

\* a pooled group operation has returned or raised
GroupReturned == gphase = "idle" /\ gresult # "none"

\* C5: when a group operation returns, every per-axis task it handed out has
\* returned or failed; none is still running.
C5_ReturnAfterAllAxes ==
    GroupReturned => \A a \in targets : wstate[a] \in {"done", "failed"}

C5_Witness ==
    /\ GroupReturned
    /\ gop.op = "find_reference_position"
    /\ targets = Axes
    /\ \A a \in Axes : wstate[a] = "done"

\* C6: while an axis's task has failed and a sibling's task is still running,
\* the group operation has not returned and the sibling is left to run; the
\* step in which one axis fails changes nothing of its siblings.
C6_SiblingsRunOn ==
    /\ [](\A a, b \in targets :
            (wstate[a] = "failed" /\ wstate[b] = "run") =>
                gphase \in {"busy", "busy2"})
    /\ [][\A a \in Axes :
            (wstate[a] = "run" /\ wstate'[a] = "failed") =>
                \A b \in Axes \ {a} :
                    /\ wstate'[b] = wstate[b]
                    /\ pc'[b] = pc[b]
                    /\ phase'[b] = phase[b]]_vars

C6_Witness ==
    /\ gphase = "busy"
    /\ gop.op = "move_to_absolute_position_in_mm"
    /\ wstate[0] = "failed" /\ err[0] = "ValueError"
    /\ wstate[1] = "run" /\ Instr(1).k = "tpr"

\* C7: on every axis's transport at most one frame is awaiting its reply.
C7_OneInFlight == \A a \in Axes : inflight[a] <= 1

C7_Witness == \A a \in Axes : inflight[a] = 1 /\ wstate[a] = "run"

\* C8: a group move whose list length differs from the axis count fails
\* before any axis is touched: no task is handed out, no frame is written.
C8_MoveLengthChecked ==
    (gop.op \in GroupMoves /\ gop.len # Cardinality(motors)) =>
        /\ gresult = "error"
        /\ targets = {}
        /\ \A a \in Axes : wstate[a] = "idle" /\ nwrites[a] = 0

\* C9: connect with a ports list whose length differs from that of the
\* per-axis configuration lists fails before any transport is opened: no
\* connect is handed to any axis.
C9_ConnectLengthChecked ==
    (gop.op = "connect" /\ gop.len # NumAxes) =>
        /\ gresult = "error"
        /\ targets = {}
        /\ \A a \in Axes : wstate[a] = "idle"

\* C10: whatever the sequence of Motor.connect and Motor.disconnect calls, at
\* most one transport handle is open for the axis, and a connect that finds
\* the transport open returns normally in its first step having opened
\* nothing and written no frame.
C10_ConnectIdempotent ==
    /\ [](\A a \in Axes : handles[a] <= 1)
    /\ [][\A a \in Axes :
            (/\ wstate[a] = "run" /\ task[a].op = "connect" /\ pc[a] = 1
             /\ serial[a] = "open"
             /\ <<wstate[a], pc[a]>>' # <<wstate[a], pc[a]>>) =>
                /\ wstate'[a] = "done"
                /\ handles'[a] = handles[a]
                /\ serial'[a] = "open"
                /\ nwrites'[a] = 0
                /\ lastFrame'[a] = <<>>
                /\ inflight'[a] = 0]_vars

C10_Witness ==
    \E a \in Axes :
        /\ task[a].op = "connect" /\ wstate[a] = "done"
        /\ nwrites[a] = 0
        /\ serial[a] = "open" /\ handles[a] = 1

\* C11 as stated: every failed connect has written exactly one
\* STOP_MOTOR_MOVEMENT frame.
C11_OneStopPerFailedConnect ==
    \A a \in Axes :
        (task[a].op = "connect" /\ wstate[a] = "failed") =>
            nwrites[a] = 1 /\ lastFrame[a] = stop_motor_movement

\* C11 amended: a connect writes nothing but the one STOP_MOTOR_MOVEMENT
\* probe. It returns normally from a closed transport only with the transport
\* open and a 9-byte reply read. When the transport cannot be opened it fails
\* with no frame written; when the probe gets no acceptable reply it fails
\* after exactly that one frame, the probe not being sent again.
C11_ConnectProbesOnce ==
    \A a \in Axes :
        task[a].op = "connect" =>
            /\ sent[a] \in {<<>>, <<stop_motor_movement>>}
            /\ nwrites[a] = Len(sent[a])
            /\ (wstate[a] = "done" /\ nwrites[a] = 1) =>
                   serial[a] = "open" /\ Len(lastReply[a]) = 9
            /\ wstate[a] = "failed" =>
                   \/ err[a] = "SerialException" /\ nwrites[a] = 0
                                                 /\ serial[a] # "open"
                   \/ err[a] = "ReplyError" /\ nwrites[a] = 1
                                            /\ serial[a] = "open"

C11_Witness ==
    \E a \in Axes :
        /\ task[a].op = "connect" /\ wstate[a] = "failed"
        /\ err[a] = "ReplyError"
        /\ nwrites[a] = 1 /\ lastReply[a] = <<>>

\* C12: whenever a move returns normally, the call has written a
\* MOVE_TO_POSITION frame and the last exchange of the call, after that
\* write, was a read of TARGET_POSITION_REACHED that returned a non-zero
\* value.
C12_ReturnsAfterTargetReached ==
    \A a \in Axes :
        (task[a].op \in MoveMethods /\ wstate[a] = "done") =>
            /\ \E i \in 1..Len(sent[a]) : FrameCmd(sent[a][i]) = MOVE_TO_POSITION
            /\ lastFrame[a] = get_axis_parameter(TARGET_POSITION_REACHED)
            /\ ret[a] # NoValue
            /\ ret[a] # 0

C12_Witness ==
    \E a \in Axes :
        /\ task[a].op = "move_relative_distance_in_mm" /\ wstate[a] = "done"
        /\ FrameCmd(sent[a][1]) = MOVE_TO_POSITION
        /\ ret[a] = 1

\* the frames of a method that is a fixed list of exchanges
FramesOf(method) == [i \in 1..Len(method) |-> method[i].f]

\* the commands of a homing in the order the claim gives, the ninth being
\* the MOVE_TO_POSITION of the nudge, whose value depends on the position read
HomingOrder ==
    FramesOf(activate_stall_guard)
        \o <<rotate_left_motor(900),
             set_axis_parameter(ACTUAL_POSITION_MICROSTEPS, 0),
             move_to_position(ABSOLUTE, 0)>>
        \o FramesOf(deactivate_stall_guard)

Homing(a) == task[a].op = "search_reference_position"

\* C13: the frames other than reads that a homing writes are, in this order,
\* the stall guard activation, ROTATE_LEFT 900, SET ACTUAL_POSITION 0, one
\* MOVE_TO_POSITION, the stall guard deactivation; ACTUAL_POSITION is zeroed
\* only in the step after a read of ACTUAL_SPEED that returned 0; the move is
\* to the position read plus 0.5 mm; a homing that returns has sent them all
\* and left STALL_DETECTION_THRESHOLD at 0.
C13_HomingOrder ==
    /\ [](\A a \in Axes :
            Homing(a) =>
                /\ Len(sent[a]) <= Len(HomingOrder)
                /\ \A i \in 1..Len(sent[a]) :
                       IF i = 9
                       THEN /\ FrameCmd(sent[a][i]) = MOVE_TO_POSITION
                            /\ FramePar(sent[a][i]) = ABSOLUTE
                       ELSE sent[a][i] = HomingOrder[i]
                /\ wstate[a] = "done" =>
                       /\ Len(sent[a]) = Len(HomingOrder)
                       /\ regs[a][STALL_DETECTION_THRESHOLD] = 0)
    /\ [][\A a \in Axes :
            (Homing(a) /\ Len(sent'[a]) = Len(sent[a]) + 1) =>
                /\ Len(sent'[a]) = 8 =>
                       /\ lastFrame[a] = get_axis_parameter(ACTUAL_SPEED)
                       /\ ret[a] = 0
                /\ Len(sent'[a]) = 9 =>
                       /\ lastFrame[a] = get_axis_parameter(ACTUAL_POSITION_MICROSTEPS)
                       /\ FrameValue(sent'[a][9]) = ret[a] + _mm_to_microsteps(a, 5)]_vars

C13_Witness ==
    \E a \in Axes :
        /\ Homing(a) /\ wstate[a] = "done"
        /\ Len(sent[a]) = Len(HomingOrder)
        /\ FrameValue(sent[a][9]) = 3202 + 3202

\* steps lies within the travel of axis a
WithinTravel(a, s) == 0 <= s /\ s <= MAX_STEP(a)

\* C14: check_if_microstep_allowed(steps) returns the flag "allowed" exactly
\* when 0 <= steps <= MAX_STEP; with relative=True it returns the flag of the
\* same test on steps plus the ACTUAL_POSITION it has just read. A range
\* failure is reported by the flag, not by an exception.
C14_CheckMatchesTravel ==
    \A a \in Axes :
        task[a].op = "check_if_microstep_allowed" =>
            /\ wstate[a] = "done" =>
                   IF task[a].arg2 = ABSOLUTE
                   THEN /\ valid[a] = WithinTravel(a, task[a].arg)
                        /\ nwrites[a] = 0
                   ELSE /\ lastFrame[a] = get_axis_parameter(ACTUAL_POSITION_MICROSTEPS)
                        /\ nwrites[a] = 1
                        /\ valid[a] = WithinTravel(a, task[a].arg + ret[a])
            /\ err[a] # "ValueError"

C14_Witness ==
    \E a \in Axes :
        /\ task[a] = Task("check_if_microstep_allowed", MAX_STEP(a) + 1, ABSOLUTE)
        /\ wstate[a] = "done"
        /\ ~valid[a]

\* C15: decoding a reply that carries the value bytes _encode produced for a
\* value gives back that value, for every command, parameter and value of the
\* signed range, negative values included.
C15_RoundTrip ==
    (codec.stage = "decoded" /\ codec.reply[3] \in StatusCodes) =>
        codec.ok /\ codec.out = codec.value

\* C16: _encode yields 9 bytes: target address 1, command, parameter, motor
\* number 0, the value as four big-endian two's-complement bytes, and the sum
\* of these eight bytes modulo the byte radix; STOP_MOTOR_MOVEMENT encodes to
\* [1, 3, 0, 0, 0, 0, 0, 0, 4].
C16_FrameLayout ==
    /\ stop_motor_movement = <<1, 3, 0, 0, 0, 0, 0, 0, 4>>
    /\ codec.stage \in {"encoded", "replied", "decoded"} =>
         LET f == codec.frame
         IN  /\ Len(f) = 9
             /\ f[1] = 1
             /\ f[2] = codec.cmd
             /\ f[3] = codec.parameter
             /\ f[4] = 0
             /\ \A i \in 5..9 : f[i] \in 0..(ByteMod - 1)
             /\ f[5] * ByteMod * ByteMod * ByteMod + f[6] * ByteMod * ByteMod
                    + f[7] * ByteMod + f[8]
                  = IF codec.value >= 0 THEN codec.value
                    ELSE codec.value + ByteMod * ByteMod * ByteMod * ByteMod
             /\ f[9] = (f[1] + f[2] + f[3] + f[4] + f[5] + f[6] + f[7] + f[8])
                           % ByteMod

C16_Witness ==
    /\ codec.stage = "encoded"
    /\ codec.cmd = MOVE_TO_POSITION
    /\ codec.value = -1
    /\ \A i \in 5..8 : codec.frame[i] = ByteMod - 1

\* C18: decode_reply fails, and returns no value, for every 9-byte reply whose
\* status byte is none of 1, 2, 3, 4, 5, 6, 100, 101.
C18_UnknownStatusFails ==
    (codec.stage = "decoded" /\ codec.reply[3] \notin {1, 2, 3, 4, 5, 6, 100, 101}) =>
        ~codec.ok /\ codec.out = NoValue

C18_Witness ==
    /\ codec.stage = "decoded"
    /\ codec.reply[3] = 102
    /\ ~codec.ok

\* C17: a register read returns the signed number its four value bytes
\* encode: get_current_position returns -1 for a reply carrying -1, not the
\* unsigned reading of the same bytes.
C17_SignedRegisterRead ==
    \A a \in Axes :
        (task[a].op = "get_current_position" /\ wstate[a] = "done") =>
            ret[a] = FrameValue(lastReply[a])

\* the reply r as the controller would have sent it with the success status
\* and the right checksum
AsSuccess(r) ==
    LET head == <<r[1], r[2], 100, r[4], r[5], r[6], r[7], r[8]>>
    IN  head \o <<SumSeq(head) % ByteMod>>

\* the 9-byte reply r carries an error status, or a checksum that is not the
\* sum of its first eight bytes
Flawed(r) ==
    /\ Len(r) = 9
    /\ \/ r[3] \in 1..6
       \/ r[3] \in {100, 101} /\ r[9] # SumSeq(SubSeq(r, 1, 8)) % ByteMod

\* C19: an exchange answered with an error status (1-6), or with a wrong
\* checksum, does not fail: it returns the value that the same reply would
\* give with a success status and the right checksum, and the method goes
\* on; a move whose MOVE_TO_POSITION was answered so enters the wait.
C19_ErrorStatusIgnored ==
    \A a \in Axes :
        Flawed(lastReply[a]) =>
            /\ err[a] # "ReplyError"
            /\ ret[a] = decode_reply(AsSuccess(lastReply[a])).value
            /\ FrameCmd(lastFrame[a]) = MOVE_TO_POSITION =>
                   wstate[a] = "run" /\ Instr(a).k = "oldpos"

C19_Witness ==
    \E a \in Axes :
        /\ task[a].op \in MoveMethods
        /\ Len(lastReply[a]) = 9 /\ lastReply[a][3] = 4
        /\ FrameCmd(lastFrame[a]) = MOVE_TO_POSITION
        /\ wstate[a] = "run" /\ Instr(a).k = "oldpos"

\* C20: when configure_motors has returned normally, every axis has been sent
\* the whole stall guard deactivation, which leaves STALL_DETECTION_THRESHOLD
\* at 0 and MIXED_DECAY_THRESHOLD at the disabled value; and the deactivation
\* starts on an axis only in a step before which every axis had returned
\* from set_speed_and_acceleration with its eight writes done.
C20_ConfigureThenDeactivate ==
    /\ []((gop.op = "configure_motors" /\ gphase = "idle" /\ gresult = "ok") =>
            \A a \in motors :
                /\ task[a].op = "deactivate_stall_guard" /\ wstate[a] = "done"
                /\ sent[a] = FramesOf(deactivate_stall_guard)
                /\ regs[a][STALL_DETECTION_THRESHOLD] = 0
                /\ regs[a][MIXED_DECAY_THRESHOLD] = DECAY_THRESHOLD)
    /\ [][(/\ gop.op = "configure_motors" /\ gop' = gop
           /\ \E a \in motors : /\ task[a].op # "deactivate_stall_guard"
                                /\ task'[a].op = "deactivate_stall_guard") =>
              \A b \in motors :
                  /\ task[b].op = "set_speed_and_acceleration"
                  /\ wstate[b] = "done"
                  /\ Len(sent[b]) = 8]_vars

C20_Witness ==
    /\ gop.op = "configure_motors" /\ gphase = "idle" /\ gresult = "ok"
    /\ motors = Axes
    /\ \A a \in Axes : regs[a][STALL_DETECTION_THRESHOLD] = 0
                       /\ regs[a][MAX_ACCELERATION] = 1500

\* a poll of the wait has just read ACTUAL_POSITION on axis a and the wait
\* goes on
PollRead(a) ==
    /\ wstate[a] = "run" /\ Instr(a).k = "newpos" /\ phase[a] = "r"
    /\ wstate'[a] = "run" /\ phase'[a] = "w"

\* C21: a poll of the wait resets the "last progress" timestamp exactly when
\* the ACTUAL_POSITION it reads differs from the value the previous poll read
\* (for the first poll, the value read when the wait started); a poll that
\* reads the same position as the poll before it leaves the timestamp alone.
C21_ResetOnChangeSincePreviousPoll ==
    [][\A a \in Axes :
         PollRead(a) => ((since'[a] = 0) <=> (ret'[a] # prevPoll[a]))]_vars

\* axis a writes the MOVE_TO_POSITION frame of move_in_step in this step
MoveWrite(a) ==
    /\ wstate[a] = "run" /\ Instr(a).k = "move" /\ phase[a] = "w"
    /\ phase'[a] = "r"

\* the steps and mode arguments of the move_in_step call whose MOVE frame is
\* about to be written
MoveRequest(a) == ProgramTable[a][task[a]][pc[a] - 1]

\* C22: every MOVE_TO_POSITION frame an axis writes carries ABSOLUTE in its
\* parameter byte; for a RELATIVE request of s steps the value sent is p + s,
\* p being what the read of ACTUAL_POSITION of that same move_in_step call
\* returned just before, and for an ABSOLUTE request it is s.
C22_MoveFrameAbsolute ==
    /\ [](\A a \in Axes :
            (lastFrame[a] # <<>> /\ FrameCmd(lastFrame[a]) = MOVE_TO_POSITION) =>
                FramePar(lastFrame[a]) = ABSOLUTE)
    /\ [][\A a \in Axes :
            MoveWrite(a) =>
                /\ FrameCmd(lastFrame'[a]) = MOVE_TO_POSITION
                /\ IF MoveRequest(a).mode = RELATIVE
                   THEN /\ lastFrame[a] = get_axis_parameter(ACTUAL_POSITION_MICROSTEPS)
                        /\ ret[a] # NoValue
                        /\ FrameValue(lastFrame'[a]) = ret[a] + MoveRequest(a).s
                   ELSE FrameValue(lastFrame'[a]) = MoveRequest(a).s]_vars

\* a relative move has written its MOVE frame: target 3202 + 3202
C22_Witness ==
    /\ task[0].op = "move_relative_distance_in_mm"
    /\ task[0].arg = 5
    /\ lastFrame[0] # <<>>
    /\ FrameCmd(lastFrame[0]) = MOVE_TO_POSITION
    /\ FramePar(lastFrame[0]) = ABSOLUTE
    /\ FrameValue(lastFrame[0]) = 3202 + 3202

\* the positions in sent[a] that hold a MOVE_TO_POSITION frame
MoveFrames(a) ==
    {i \in 1..Len(sent[a]) : FrameCmd(sent[a][i]) = MOVE_TO_POSITION}

\* the Motor method a group move maps over the axes
MoveMethod(name) ==
    IF name = "move_to_absolute_position_in_mm"
    THEN "move_absolute_position_in_mm"
    ELSE "move_relative_distance_in_mm"

\* C23: in a group move an axis that is handed a move request is handed the
\* element of the list at its own index and nothing else, it writes at most
\* one MOVE frame, and an absolute one carries that element converted to
\* steps; given one element per axis, every axis is handed its request.
C23_ElementRoutedByIndex ==
    gop.op \in GroupMoves =>
        /\ \A a \in Axes :
             task[a].op # "none" =>
                 /\ a \in motors /\ a < Len(gop.args)
                 /\ task[a] = Task(MoveMethod(gop.op), gop.args[a + 1], 0)
                 /\ Cardinality(MoveFrames(a)) <= 1
                 /\ \A i \in MoveFrames(a) :
                      gop.op = "move_to_absolute_position_in_mm" =>
                          FrameValue(sent[a][i]) = _mm_to_microsteps(a, gop.args[a + 1])
        /\ (Len(gop.args) = Cardinality(motors)) =>
               \A a \in motors : task[a].op # "none"

\* a group move to <<250 mm, 0.5 mm>> has returned: axis 0 refused its own
\* 250 mm, axis 1 moved to its own 0.5 mm
C23_Witness ==
    /\ gop.op = "move_to_absolute_position_in_mm"
    /\ gop.args = <<2500, 5>>
    /\ gphase = "idle"
    /\ wstate[0] = "failed" /\ err[0] = "ValueError"
    /\ wstate[1] = "done"
    /\ Cardinality(MoveFrames(1)) = 1
    /\ MoveFrames(0) = {}

\* the axes a group operation in progress is to act on
Addressed ==
    IF gop.op \in GroupMoves THEN {a \in motors : a < gop.len} ELSE motors

\* the group operations that walk over the Motors in the caller's own thread
SequentialOps == {"get_current_position", "check_position_in_mm_allowed"}

\* C24 as stated: every group operation, get_current_position and
\* check_position_in_mm_allowed included, hands the per-axis operation to all
\* its axes at once, so that while it is in progress no axis is still waiting
\* for the operation of another axis to complete.
C24_AllDispatchedAtOnce ==
    gphase # "idle" => \A a \in Addressed : task[a].op # "none"

\* C24, amended: the operations that use a pool hand a task to all their axes
\* at once and return only after all of them; get_current_position asks the
\* axes one after the other, axis j only after every axis before it has
\* completed, with never more than one axis at work, and returns normally only
\* after all of them; check_position_in_mm_allowed runs no per-axis task at
\* all.
C24_PooledOrSequential ==
    /\ gphase \in {"busy", "busy2"} =>
         /\ gop.op \notin SequentialOps
         /\ targets = Addressed
         /\ \A a \in targets : task[a].op # "none"
    /\ gphase = "seq" =>
         /\ gop.op = "get_current_position"
         /\ Cardinality({a \in Axes : wstate[a] = "run"}) <= 1
         /\ \A a \in motors :
              task[a].op # "none" =>
                  \A b \in motors : b < a => wstate[b] = "done"
    /\ (gop.op = "get_current_position" /\ gphase = "idle" /\ gresult = "ok") =>
         \A a \in motors : wstate[a] = "done"
    /\ gop.op = "check_position_in_mm_allowed" =>
         /\ gphase = "idle" /\ gresult = "ok" /\ targets = {}
         /\ \A a \in Axes : task[a].op = "none"
         /\ Len(gvalue) = Min(gop.len, Cardinality(motors))

\* get_current_position with two axes: axis 0 has answered, and only now is
\* axis 1 asked
C24_Witness ==
    /\ gop.op = "get_current_position"
    /\ gphase = "seq"
    /\ wstate[0] = "done"
    /\ wstate[1] = "run" /\ phase[1] = "r"

\* s is an initial part of t
IsPrefix(s, t) == Len(s) <= Len(t) /\ s = SubSeq(t, 1, Len(s))

\* the six frames of a stall guard switch that leaves MIXED_DECAY_THRESHOLD at
\* decay and STALL_DETECTION_THRESHOLD at stall
StallGuardFrames(decay, stall) ==
    <<set_axis_parameter(MAX_SPEED, 1000), store_axis_parameter(MAX_SPEED),
      set_axis_parameter(MIXED_DECAY_THRESHOLD, decay),
      store_axis_parameter(MIXED_DECAY_THRESHOLD),
      set_axis_parameter(STALL_DETECTION_THRESHOLD, stall),
      store_axis_parameter(STALL_DETECTION_THRESHOLD)>>

\* the values a call has SET in the three registers of the stall guard mode
Mode(a) == <<regs[a][MAX_SPEED], regs[a][MIXED_DECAY_THRESHOLD],
             regs[a][STALL_DETECTION_THRESHOLD]>>

\* C25: the frames activate_stall_guard and deactivate_stall_guard write are,
\* in this order, SET and STORE of MAX_SPEED (1000), of MIXED_DECAY_THRESHOLD
\* and of STALL_DETECTION_THRESHOLD; a call that returns has written all six,
\* leaving 2048 and STALL_THRESHOLD after activate, DECAY_THRESHOLD and 0
\* after deactivate, whichever call came before it.
C25_StallGuardModes ==
    \A a \in Axes :
        /\ task[a].op = "activate_stall_guard" =>
             /\ IsPrefix(sent[a], StallGuardFrames(2048, STALL_THRESHOLD))
             /\ wstate[a] = "done" =>
                  /\ Len(sent[a]) = 6
                  /\ Mode(a) = <<1000, 2048, STALL_THRESHOLD>>
        /\ task[a].op = "deactivate_stall_guard" =>
             /\ IsPrefix(sent[a], StallGuardFrames(DECAY_THRESHOLD, 0))
             /\ wstate[a] = "done" =>
                  /\ Len(sent[a]) = 6
                  /\ Mode(a) = <<1000, DECAY_THRESHOLD, 0>>

\* deactivate_stall_guard has returned right after an activate_stall_guard
\* that returned
C25_Witness ==
    /\ seen.op = "activate_stall_guard" /\ seen.wstate = "done"
    /\ task[0].op = "deactivate_stall_guard" /\ wstate[0] = "done"
    /\ Mode(0) = <<1000, -1, 0>>

\* self._serial.read(9) returns on axis a in this step
ReadStep(a) == phase[a] = "r" /\ inflight[a] > 0 /\ inflight'[a] = 0

\* C26: when the read after a frame returns fewer than 9 bytes, none
\* included, _write_to_serial raises instead of returning a value and the
\* call of the axis fails there; a failed call writes no further frame.
C26_ShortReplyIsFatal ==
    /\ [][\A a \in Axes :
            (ReadStep(a) /\ Len(lastReply'[a]) < 9) =>
                /\ wstate'[a] = "failed"
                /\ err'[a] = "ReplyError"
                /\ ret'[a] = NoValue
                /\ nwrites'[a] = nwrites[a]]_vars
    /\ [][\A a \in Axes :
            (wstate[a] = "failed" /\ wstate'[a] = "failed") =>
                /\ nwrites'[a] = nwrites[a]
                /\ lastFrame'[a] = lastFrame[a]
                /\ sent'[a] = sent[a]
                /\ inflight'[a] = 0]_vars

\* a poll of TARGET_POSITION_REACHED during the wait of a move got ShortLen
\* bytes back; the move has failed with the MOVE frame as its only write
\* other than reads
C26_Witness ==
    /\ task[0].op = "move_absolute_position_in_mm"
    /\ wstate[0] = "failed" /\ err[0] = "ReplyError"
    /\ Len(lastReply[0]) = ShortLen
    /\ lastFrame[0] = get_axis_parameter(TARGET_POSITION_REACHED)
    /\ Len(sent[0]) = 1

FailedProbe == [op |-> "connect", wstate |-> "failed", err |-> "ReplyError"]

\* C28: Motor.connect that fails at the probe leaves the transport it opened
\* open; the connect called next on the same axis finds it open, writes
\* nothing, probes nothing and returns normally, with the handle of the
\* failed call as the handle of the axis.
C28_ConnectAfterFailedProbe ==
    /\ \A a \in Axes :
         (task[a].op = "connect" /\ wstate[a] = "failed" /\ err[a] = "ReplyError") =>
             /\ serial[a] = "open"
             /\ handles[a] = 1
             /\ nwrites[a] = 1
    /\ (seen = FailedProbe /\ task[0].op = "connect") =>
         /\ wstate[0] \in {"run", "done"}
         /\ wstate[0] = "run" => pc[0] = 1
         /\ nwrites[0] = 0 /\ lastFrame[0] = <<>> /\ lastReply[0] = <<>>
         /\ serial[0] = "open"
         /\ handles[0] = 1

\* connect has returned normally right after a connect that got no reply to
\* its probe
C28_Witness ==
    /\ seen = FailedProbe
    /\ task[0].op = "connect" /\ wstate[0] = "done"
    /\ nwrites[0] = 0
    /\ serial[0] = "open"

\* the open handles on the port of axis a that no Motor refers to any more
Leaked(a) == handles[a] - (IF serial[a] = "open" THEN 1 ELSE 0)

\* the caller calls group connect in this step
ConnectStep == gphase = "idle" /\ gop'.op = "connect"

\* C29 as stated: a group connect made while the axes are connected gives
\* every axis a new Motor with no transport and leaves the handle of the
\* replaced Motor open, with nothing referring to it.
C29_OldHandleStaysOpen ==
    [][ConnectStep =>
         \A a \in motors' :
             /\ serial'[a] = "none"
             /\ handles'[a] = handles[a]
             /\ Leaked(a)' = handles[a]]_vars

\* C29, amended: group connect gives every index its ports list names a new
\* Motor with no transport, all axes when the list is as long as before, and
\* calls no disconnect; the handle a replaced Motor had open is then either
\* still open with nothing referring to it or closed by the finalizer of the
\* dropped object.  In no other step does the number of handles nothing
\* refers to change: a close takes away exactly the one handle the current
\* Motor holds, and a group disconnect that has returned leaves the others
\* open.
C29_ReconnectDropsHandles ==
    /\ [][ConnectStep =>
            /\ \A a \in Axes :
                 IF a < gop'.len
                 THEN /\ a \in motors'
                      /\ serial'[a] = "none"
                      /\ handles'[a] \in {handles[a], handles[a] - 1}
                      /\ handles'[a] < handles[a] => serial[a] = "open"
                 ELSE serial'[a] = serial[a] /\ handles'[a] = handles[a]
            /\ gop'.len >= Cardinality(motors) =>
                 \A a \in motors' : serial'[a] = "none"]_vars
    /\ [][~ConnectStep =>
            \A a \in Axes :
                /\ Leaked(a)' = Leaked(a)
                /\ handles'[a] < handles[a] =>
                     /\ handles'[a] = handles[a] - 1
                     /\ serial[a] = "open" /\ serial'[a] = "closed"]_vars
    /\ [](\A a \in Axes : Leaked(a) >= 0)
    /\ []((gop.op = "disconnect" /\ gphase = "idle" /\ gresult = "ok") =>
            \A a \in motors : serial[a] # "open" /\ handles[a] = Leaked(a))

\* connect, connect, disconnect on two axes with no finalizer at work: the
\* disconnect has returned and one handle is still open on each port
C29_Witness ==
    /\ gop.op = "disconnect" /\ gphase = "idle" /\ gresult = "ok"
    /\ motors = {0, 1}
    /\ \A a \in motors : serial[a] = "closed" /\ handles[a] = 1

\* the frames other than reads that search_reference_position and
\* print_maximum_step have written when the nudge starts
BeforeNudge(a) == IF task[a].op = "search_reference_position" THEN 8 ELSE 7

\* the call of axis a has ended inside the nudge of search_reference_position
\* or print_maximum_step: at the read of the position the relative move starts
\* with, or after its MOVE frame
NudgeFailed(a) ==
    /\ task[a].op \in {"search_reference_position", "print_maximum_step"}
    /\ wstate[a] \in {"failed", "dead"}
    /\ \/ /\ Len(sent[a]) = BeforeNudge(a)
          /\ lastFrame[a] = get_axis_parameter(ACTUAL_POSITION_MICROSTEPS)
       \/ Len(sent[a]) = BeforeNudge(a) + 1

\* C30: when the nudge of search_reference_position or print_maximum_step
\* fails, by range rejection, reply failure or freeze fault, no frame of
\* deactivate_stall_guard has been written: the call has ended with the
\* registers as activate_stall_guard set them, STALL_DETECTION_THRESHOLD at
\* STALL_THRESHOLD and MAX_SPEED at 1000.
C30_FailedNudgeLeavesStallGuardOn ==
    \A a \in Axes :
        NudgeFailed(a) =>
            /\ err[a] \in {"ValueError", "ReplyError", "SystemExit"}
            /\ Mode(a) = <<1000, 2048, STALL_THRESHOLD>>
            /\ IsPrefix(StallGuardFrames(2048, STALL_THRESHOLD), sent[a])
            /\ \A i \in 1..Len(sent[a]) :
                 sent[a][i] # set_axis_parameter(STALL_DETECTION_THRESHOLD, 0)
            /\ Len(sent[a]) = BeforeNudge(a) + 1 =>
                 FrameCmd(sent[a][Len(sent[a])]) = MOVE_TO_POSITION

\* a homing whose nudge was refused by the bounds check
C30_Witness ==
    /\ task[0].op = "search_reference_position"
    /\ NudgeFailed(0)
    /\ err[0] = "ValueError"
    /\ regs[0][STALL_DETECTION_THRESHOLD] = STALL_THRESHOLD

\* the frame axis a wrote last is a read of ACTUAL_SPEED
SpeedAsked(a) ==
    /\ task[a].op \in {"search_reference_position", "print_maximum_step"}
    /\ lastFrame[a] = get_axis_parameter(ACTUAL_SPEED)

\* C31: in search_reference_position and print_maximum_step a read of
\* ACTUAL_SPEED that returns a value other than 0 is followed by the same
\* read again, whatever time has passed and however often it has happened;
\* the call goes on to its next frame only in the step of a read that
\* returned 0, and the only other way out of the loop is a read that fails:
\* the freeze fault never ends it.
C31_SpeedPollUnbounded ==
    /\ [][\A a \in Axes :
            (SpeedAsked(a) /\ ReadStep(a)) =>
                CASE ret'[a] = NoValue ->
                       wstate'[a] = "failed" /\ err'[a] = "ReplyError"
                  [] ret'[a] = 0 ->
                       wstate'[a] = "run" /\ pc'[a] = pc[a] + 1
                  [] OTHER ->
                       /\ wstate'[a] = "run" /\ pc'[a] = pc[a]
                       /\ Instr(a)'.k = "speed" /\ phase'[a] = "w"
                       /\ since'[a] = 0 /\ alive']_vars
    /\ [](\A a \in Axes :
            (SpeedAsked(a) /\ wstate[a] # "run") =>
                wstate[a] = "failed" /\ err[a] = "ReplyError")
    /\ [](\A a \in Axes :
            (wstate[a] = "run" /\ pc[a] > 0 /\ Instr(a).k = "speed"
                /\ phase[a] = "w" /\ lastFrame[a] # <<>>) =>
                    \/ lastFrame[a] \in {rotate_left_motor(900), rotate_right_motor(900)}
                    \/ SpeedAsked(a) /\ ret[a] \notin {0, NoValue})

\* a homing has read a speed of 900 and is about to read the speed again
C31_Witness ==
    /\ task[0].op = "search_reference_position"
    /\ wstate[0] = "run" /\ Instr(0).k = "speed" /\ phase[0] = "w"
    /\ SpeedAsked(0)
    /\ ret[0] = 900

\* the verdicts on the list l with each element taken as an absolute position
\* of the axis at its index
JudgedAbsolute(l) ==
    [i \in 1..Min(Len(l), Cardinality(motors)) |->
        WithinTravel(i - 1, _mm_to_microsteps(i - 1, l[i]))]

\* C32: check_position_in_mm_allowed(positions, relative) returns, for
\* relative=True as for relative=False, one verdict per axis that has an
\* element, in axis order, each saying whether the element taken as an
\* absolute position lies in [0, MAX_STEP] of its axis; it hands no task to
\* any axis, reads no position and writes no frame.
C32_CheckIgnoresRelative ==
    /\ [](gop.op = "check_position_in_mm_allowed" =>
            /\ gphase = "idle" /\ gresult = "ok"
            /\ gvalue = JudgedAbsolute(gop.args)
            /\ Len(gvalue) = Min(gop.len, Cardinality(motors))
            /\ \A a \in Axes :
                 /\ task[a].op = "none" /\ wstate[a] = "idle"
                 /\ nwrites[a] = 0 /\ lastFrame[a] = <<>> /\ sent[a] = <<>>
                 /\ inflight[a] = 0 /\ ret[a] = NoValue)
    /\ [][(gphase = "idle" /\ gop'.op = "check_position_in_mm_allowed") =>
            /\ serial' = serial /\ handles' = handles /\ motors' = motors
            /\ inflight' = inflight]_vars

\* check_position_in_mm_allowed(<<0.5 mm, 250 mm>>, relative=True) on two
\* axes has returned <<True, False>>
C32_Witness ==
    /\ gop.op = "check_position_in_mm_allowed"
    /\ gop.relative
    /\ gop.args = <<5, 2500>>
    /\ motors = {0, 1}
    /\ gvalue = <<TRUE, FALSE>>

====
